---- MODULE Spec2Model ----
(***************************************************************************)
(* Model of src/simplified_opentelemetry.py: Span, ConsoleSpanExporter,    *)
(* BatchSpanProcessor, Tracer and TracerProvider, driven by host threads   *)
(* the way demo_simple_tracing and src/03_flask_with_simplified_otel.py    *)
(* drive them.                                                             *)
(*                                                                         *)
(*   Spec          threads using start_as_current_span and flush           *)
(*   FairSpec      Spec, with every started call scheduled                 *)
(*   HostSpec      threads using start_span / end_span (the request        *)
(*                 lifecycle of the Flask host), with time passing         *)
(*   ProducerSpec  N threads each calling add_span M times, then one       *)
(*                 final flush                                             *)
(*   RegistrySpec  threads calling TracerProvider.get_tracer               *)
(***************************************************************************)
EXTENDS Integers, Sequences, FiniteSets, TLC

\* ---------------------------------------------------------------- bounds
\* scopes opened (Spec), spans started by the host (HostSpec)
MaxScopes == 2
\* add_span calls per producer thread (ProducerSpec)
AddsPerThread == 2
\* largest configured max_batch_size
MaxBatchSize == 3
\* nesting depth of scopes in one thread
MaxDepth == 2
\* host calls of flush
MaxFlushes == 2
\* export calls that raise
MaxExportFailures == 1
\* end_span calls the host makes on one span
MaxEndCalls == 2
\* largest clock reading
MaxClock == 2
\* get_tracer calls
MaxGetCalls == 3
\* set_attribute / add_event / record_exception / set_status calls of the hosts
MaxSpanOps == 2
\* calls a host makes on its spans, the tracer and the provider in one run
MaxHostCalls == 3

Threads == {1, 2}
MaxSpans == Cardinality(Threads) * AddsPerThread
SpanIds == 1..MaxSpans
Names == {"flask_app", "demo"}
TracerIds == 1..MaxGetCalls

\* ------------------------------------------------------- program values
\* Optional[...] = None (end_time, parent_context)
None == -1
\* str(e) of the failures the wrapped work raises
Msgs == {"boom", "bang"}
\* type(e).__name__ of those failures: the demo raises ValueError("..."), the
\* flask view raises Exception("...")
KindOf(e) == IF e = "boom" THEN "ValueError" ELSE "Exception"
\* the failure an exporter raises out of export()
ExportError == "export failed"
\* no exception (in flight, or stored in Span.error)
NoExc == "None"

VARIABLES
  clock,           \* the value time.time() returns
  span,            \* the Span objects, by identity
  nextSpan,        \* identity of the next Span object constructed
  max_batch_size,  \* BatchSpanProcessor.max_batch_size
  spans,           \* BatchSpanProcessor.spans (identities, in append order)
  lock,            \* BatchSpanProcessor.lock: 0 free, else the holding thread
  exports,         \* every invocation of exporter.export, in order
  calls,           \* calls the host has made so far, per operation
  tracers,         \* TracerProvider.tracers: name -> Tracer identity (0: absent)
  built,           \* per name, the Tracer objects constructed for it
  returned,        \* per name, the Tracer identities get_tracer has returned
  pc,              \* each thread's position
  cur,             \* each thread's span argument of end_span / add_span
  exc,             \* each thread's exception in flight ("None": none)
  nested,          \* each thread: its flush was called from inside add_span
  caller,          \* each thread: who called end_span ("scope" or "host")
  stack,           \* each thread's open start_as_current_span scopes
  gname,           \* each thread's name argument of get_tracer
  processor,       \* Tracer.processor of each Tracer object (0: not built)
  tracer,          \* each thread: the Tracer its last get_tracer returned
  hist             \* per span: what its scope and end_span did (history)

vars == <<clock, span, nextSpan, max_batch_size, spans, lock, exports, calls,
          tracers, built, returned, pc, cur, exc, nested, caller, stack, gname,
          processor, tracer, hist>>

procVars == <<max_batch_size, spans, lock, exports>>
regVars == <<tracers, built, returned, gname, processor, tracer>>

\* ----------------------------------------------------------- SpanContext
\* SpanContext objects, by identity. SpanContext.generate() builds the n-th
\* one from two uuid4 draws; a draw repeats no earlier draw
generate(n) == n

\* SpanContext.span_id of context object c: the draw made for c
span_id(c) == c

\* SpanContext.trace_id of context object c: the other draw made for c
trace_id(c) == c

\* SpanContext.trace_flags of context object c: the default, 1 = sampled
trace_flags(c) == 1

\* ------------------------------------------------------------------ Span
\* attribute keys and values the hosts pass to set_attribute: a str, an int,
\* and a dict (set_attribute is typed Any)
AttrKeys == {"http.method", "http.status_code"}
AttrValues == { [type |-> "str", repr |-> "GET"],
                [type |-> "int", repr |-> "200"],
                [type |-> "dict", repr |-> "{}"] }

\* field(default_factory=dict): the empty dict
NoAttributes == [k \in {} |-> [type |-> "", repr |-> ""]]

\* dataclass Span: the fields as Tracer.start_span leaves them
NewSpan(parent) ==
  [ context |-> generate(nextSpan),
    start_time |-> clock, end_time |-> None, parent |-> parent,
    attributes |-> NoAttributes,
    status |-> "UNSET", status_message |-> "", events |-> <<>>,
    error |-> NoExc, created |-> TRUE ]

\* a Span identity no object has been constructed for yet
NoSpan ==
  [ context |-> None,
    start_time |-> None, end_time |-> None, parent |-> None,
    attributes |-> NoAttributes,
    status |-> "UNSET", status_message |-> "", events |-> <<>>,
    error |-> NoExc, created |-> FALSE ]

\* a set_attribute that also forgets the parent
set_attributeDropsParent(sp, key, value) ==
  [sp EXCEPT !.attributes =
               [k \in (DOMAIN @) \cup {key} |-> IF k = key THEN value ELSE @[k]],
             !.parent = None]

\* Span.set_attribute: self.attributes[key] = value
set_attribute(sp, key, value) ==
  [sp EXCEPT !.attributes =
     [k \in (DOMAIN @) \cup {key} |-> IF k = key THEN value ELSE @[k]]]

\* an add_event that keeps only the newest event
add_eventReplacing(sp, name, attributes) ==
  [sp EXCEPT !.events =
     <<[name |-> name, timestamp |-> clock, attributes |-> attributes]>>]

\* Span.add_event
add_event(sp, name, attributes) ==
  [sp EXCEPT !.events =
     Append(@, [name |-> name, timestamp |-> clock, attributes |-> attributes])]

\* a record_exception that also marks the span as failed
record_exceptionSetsStatus(sp, e) ==
  [add_event([sp EXCEPT !.error = e], "exception",
             [type |-> KindOf(e), message |-> e])
     EXCEPT !.status = "ERROR", !.status_message = e]

\* Span.record_exception
record_exception(sp, e) ==
  add_event([sp EXCEPT !.error = e], "exception",
            [type |-> KindOf(e), message |-> e])

\* Span.set_status
set_status(sp, status, message) ==
  [sp EXCEPT !.status = status, !.status_message = message]

\* an end() that sets nothing
endNothing(sp) == sp

\* Span.end
end(sp) == [sp EXCEPT !.end_time = clock]

\* Span.to_dict: "parent_span_id"
parent_span_id(sp) == IF sp.parent # None THEN span_id(sp.parent) ELSE None

\* Span.duration: "if self.end_time" is false for None and for 0.0
duration(sp) ==
  IF sp.end_time # None /\ sp.end_time # 0
    THEN sp.end_time - sp.start_time
    ELSE clock - sp.start_time

\* history kept per span: calls of end_span on it, appends of it to the buffer,
\* the failure its scope's work raised, what left its scope, the thread that
\* started it, the calls of its mutating methods by the host, the tracer it
\* was started through, the span of the scope its scope was opened in
NoHist == [ends |-> 0, appended |-> 0, workExc |-> NoExc, outcome |-> "open",
           scoped |-> FALSE, owner |-> 0, ops |-> 0, tracer |-> 0, encl |-> 0]

\* ------------------------------------------------------------------ Init
\* TracerProvider.__init__, BatchSpanProcessor.__init__ with max_batch_size
\* one of sizes, and threads that have not called anything yet
InitWith(sizes) ==
  /\ clock = 0
  /\ span = [s \in SpanIds |-> NoSpan]
  /\ nextSpan = 1
  /\ max_batch_size \in sizes
  /\ spans = <<>>
  /\ lock = 0
  /\ exports = <<>>
  /\ calls = [flush |-> 0, get_tracer |-> 0]
  /\ tracers = [n \in Names |-> 0]
  /\ built = [n \in Names |-> {}]
  /\ returned = [n \in Names |-> {}]
  /\ pc = [t \in Threads |-> "run"]
  /\ cur = [t \in Threads |-> 0]
  /\ exc = [t \in Threads |-> NoExc]
  /\ nested = [t \in Threads |-> FALSE]
  /\ caller = [t \in Threads |-> "host"]
  /\ stack = [t \in Threads |-> <<>>]
  /\ gname = [t \in Threads |-> ""]
  /\ processor = [i \in TracerIds |-> 0]
  /\ tracer = [t \in Threads |-> 0]
  /\ hist = [s \in SpanIds |-> NoHist]

Init == InitWith(1..MaxBatchSize)

\* time.time() moves on
Tick ==
  /\ clock < MaxClock
  /\ clock' = clock + 1
  /\ UNCHANGED <<span, nextSpan, hist, procVars, regVars, calls, pc, cur, exc,
                 nested, caller, stack>>

\* the outermost open scope of thread t
Bottom(t) == stack[t][1]

\* the innermost open scope of thread t: the one whose body is running
Top(t) == stack[t][Len(stack[t])]
Pop(sq) == SubSeq(sq, 1, Len(sq) - 1)

\* ---------------------------------------------------------------- Tracer
\* a start_span that drops its parent_context argument
start_spanNoParent(parent) == NewSpan(None)

\* Tracer.start_span
start_span(parent) == NewSpan(parent)

\* the span of the scope thread t is in when it opens another (0: none)
Enclosing(t) == IF stack[t] = <<>> THEN 0 ELSE Top(t)

\* with tracer.start_as_current_span(name): up to the yield. Every call site
\* of the hosts leaves parent_context at its default, None
ScopeEnter(t) ==
  /\ pc[t] = "run"
  /\ nextSpan <= MaxScopes
  /\ Len(stack[t]) < MaxDepth
  /\ span' = [span EXCEPT ![nextSpan] = start_span(None)]
  /\ hist' = [hist EXCEPT ![nextSpan].scoped = TRUE,
                          ![nextSpan].encl = Enclosing(t)]
  /\ stack' = [stack EXCEPT ![t] = Append(@, nextSpan)]
  /\ nextSpan' = nextSpan + 1
  /\ UNCHANGED <<clock, procVars, regVars, calls, pc, cur, exc, nested, caller>>

\* the wrapped work returns: the finally clause calls end_span
WorkReturn(t) ==
  /\ pc[t] = "run"
  /\ stack[t] # <<>>
  /\ pc' = [pc EXCEPT ![t] = "end_span"]
  /\ cur' = [cur EXCEPT ![t] = Top(t)]
  /\ caller' = [caller EXCEPT ![t] = "scope"]
  /\ hist' = [hist EXCEPT ![Top(t)].ends = @ + 1]
  /\ UNCHANGED <<clock, span, nextSpan, procVars, regVars, calls, exc, nested,
                 stack>>

\* the wrapped work raises e, and end_span sits after the try statement
\* instead of in a finally clause: the re-raise leaves the scope without it
WorkRaiseNoFinally(t) ==
  /\ pc[t] = "run"
  /\ stack[t] # <<>>
  /\ \E m \in Msgs :
       /\ span' = [span EXCEPT ![Top(t)] =
                     set_status(record_exception(@, m), "ERROR", m)]
       /\ exc' = [exc EXCEPT ![t] = m]
       /\ hist' = [hist EXCEPT ![Top(t)].workExc = m]
  /\ pc' = [pc EXCEPT ![t] = "scope_exit"]
  /\ cur' = [cur EXCEPT ![t] = Top(t)]
  /\ caller' = [caller EXCEPT ![t] = "scope"]
  /\ UNCHANGED <<clock, nextSpan, procVars, regVars, calls, nested, stack>>

\* the wrapped work raises e: the except clause (record_exception, set_status,
\* raise), then the finally clause calls end_span with e in flight
WorkRaise(t) ==
  /\ pc[t] = "run"
  /\ stack[t] # <<>>
  /\ \E m \in Msgs :
       /\ span' = [span EXCEPT ![Top(t)] =
                     set_status(record_exception(@, m), "ERROR", m)]
       /\ exc' = [exc EXCEPT ![t] = m]
       /\ hist' = [hist EXCEPT ![Top(t)].workExc = m, ![Top(t)].ends = @ + 1]
  /\ pc' = [pc EXCEPT ![t] = "end_span"]
  /\ cur' = [cur EXCEPT ![t] = Top(t)]
  /\ caller' = [caller EXCEPT ![t] = "scope"]
  /\ UNCHANGED <<clock, nextSpan, procVars, regVars, calls, nested, stack>>

\* the context manager is left: the exception in flight, if any, reaches the
\* caller of the scope
ScopeExit(t) ==
  /\ pc[t] = "scope_exit"
  /\ hist' = [hist EXCEPT ![Top(t)].outcome =
                IF exc[t] = NoExc THEN "returned" ELSE exc[t]]
  /\ stack' = [stack EXCEPT ![t] = Pop(@)]
  /\ pc' = [pc EXCEPT ![t] = "run"]
  /\ exc' = [exc EXCEPT ![t] = NoExc]
  /\ cur' = [cur EXCEPT ![t] = 0]
  /\ caller' = [caller EXCEPT ![t] = "host"]
  /\ UNCHANGED <<clock, span, nextSpan, procVars, regVars, calls, nested>>

\* the host calls tracer.start_span itself (before_request)
StartSpan(t) ==
  /\ pc[t] = "run"
  /\ nextSpan <= MaxScopes
  /\ span' = [span EXCEPT ![nextSpan] = start_span(None)]
  /\ hist' = [hist EXCEPT ![nextSpan].owner = t]
  /\ nextSpan' = nextSpan + 1
  /\ UNCHANGED <<clock, procVars, regVars, calls, pc, cur, exc, nested, caller,
                 stack>>

\* the parent_context values a host has at hand: none, or the context of a
\* span it was given
Parents == {None} \cup {span[s].context : s \in {x \in SpanIds : span[x].created}}

\* the host calls tracer.start_span(name, parent_context=p)
StartSpanFrom(t, p) ==
  /\ pc[t] = "run"
  /\ nextSpan <= MaxScopes
  /\ span' = [span EXCEPT ![nextSpan] = start_span(p)]
  /\ hist' = [hist EXCEPT ![nextSpan].owner = t]
  /\ nextSpan' = nextSpan + 1
  /\ UNCHANGED <<clock, procVars, regVars, calls, pc, cur, exc, nested, caller,
                 stack>>

\* the calls of mutating span methods the hosts have made so far
SpanOps == Cardinality({c \in SpanIds \X (1..MaxSpanOps) : c[2] <= hist[c[1]].ops})

\* the spans the host on thread t may call a mutating method of
Mutable(t) ==
  {s \in SpanIds : span[s].created /\ hist[s].owner = t /\ SpanOps < MaxSpanOps}

\* the host calls span.set_attribute(key, value)
SetAttribute(t) ==
  /\ pc[t] = "run"
  /\ \E s \in Mutable(t), key \in AttrKeys, value \in AttrValues :
       /\ span' = [span EXCEPT ![s] = set_attribute(@, key, value)]
       /\ hist' = [hist EXCEPT ![s].ops = @ + 1]
  /\ UNCHANGED <<clock, nextSpan, procVars, regVars, calls, pc, cur, exc, nested,
                 caller, stack>>

\* the host calls span.add_event(name) (attributes default to None: "or {}")
AddEvent(t) ==
  /\ pc[t] = "run"
  /\ \E s \in Mutable(t) :
       /\ span' = [span EXCEPT ![s] = add_event(@, "error_occurred", NoAttributes)]
       /\ hist' = [hist EXCEPT ![s].ops = @ + 1]
  /\ UNCHANGED <<clock, nextSpan, procVars, regVars, calls, pc, cur, exc, nested,
                 caller, stack>>

\* the host calls span.record_exception(e) (handle_exception)
RecordException(t) ==
  /\ pc[t] = "run"
  /\ \E s \in Mutable(t), e \in Msgs :
       /\ span' = [span EXCEPT ![s] = record_exception(@, e)]
       /\ hist' = [hist EXCEPT ![s].ops = @ + 1]
  /\ UNCHANGED <<clock, nextSpan, procVars, regVars, calls, pc, cur, exc, nested,
                 caller, stack>>

\* the host calls span.set_status(OK) or span.set_status(ERROR, str(e))
\* (after_request, handle_exception)
SetStatus(t) ==
  /\ pc[t] = "run"
  /\ \E s \in Mutable(t),
        a \in {<<"OK", "">>} \cup {<<"ERROR", e>> : e \in Msgs} :
       /\ span' = [span EXCEPT ![s] = set_status(@, a[1], a[2])]
       /\ hist' = [hist EXCEPT ![s].ops = @ + 1]
  /\ UNCHANGED <<clock, nextSpan, procVars, regVars, calls, pc, cur, exc, nested,
                 caller, stack>>

\* the host calls tracer.end_span(span) itself (after_request and
\* handle_exception: both end the request's span)
EndSpanCall(t) ==
  /\ pc[t] = "run"
  /\ \E s \in SpanIds :
       /\ span[s].created /\ hist[s].owner = t
       /\ hist[s].ends < MaxEndCalls
       /\ cur' = [cur EXCEPT ![t] = s]
       /\ hist' = [hist EXCEPT ![s].ends = @ + 1]
  /\ pc' = [pc EXCEPT ![t] = "end_span"]
  /\ caller' = [caller EXCEPT ![t] = "host"]
  /\ UNCHANGED <<clock, span, nextSpan, procVars, regVars, calls, exc, nested,
                 stack>>

\* Tracer.end_span: span.end(), then self.processor.add_span(span)
EndSpanEnd(t) ==
  /\ pc[t] = "end_span"
  /\ span' = [span EXCEPT ![cur[t]] = end(@)]
  /\ pc' = [pc EXCEPT ![t] = "add_lock"]
  /\ UNCHANGED <<clock, nextSpan, hist, procVars, regVars, calls, cur, exc,
                 nested, caller, stack>>

\* ---------------------------------------------------- BatchSpanProcessor
\* an acquire that never waits
CanAcquireAlways(t) == TRUE

\* threading.Lock.acquire: blocks until the lock is free, whoever holds it
CanAcquire(t) == lock = 0

\* add_span: with self.lock
AddSpanAcquire(t) ==
  /\ pc[t] = "add_lock"
  /\ CanAcquire(t)
  /\ lock' = t
  /\ pc' = [pc EXCEPT ![t] = "add_append"]
  /\ UNCHANGED <<clock, span, nextSpan, hist, max_batch_size, spans, exports,
                 regVars, calls, cur, exc, nested, caller, stack>>

\* an add_span without its length test
AtThresholdNever(buf) == FALSE

\* add_span: len(self.spans) >= self.max_batch_size
AtThreshold(buf) == Len(buf) >= max_batch_size

\* add_span: self.spans.append(span); at the threshold, the call self.flush()
AddSpanAppend(t) ==
  /\ pc[t] = "add_append"
  /\ spans' = Append(spans, cur[t])
  /\ hist' = [hist EXCEPT ![cur[t]].appended = @ + 1]
  /\ pc' = [pc EXCEPT ![t] =
              IF AtThreshold(spans') THEN "flush_lock" ELSE "add_release"]
  /\ nested' = [nested EXCEPT ![t] = AtThreshold(spans')]
  /\ UNCHANGED <<clock, span, nextSpan, max_batch_size, lock, exports, regVars,
                 calls, cur, exc, caller, stack>>

\* add_span: leaving "with self.lock"; add_span and end_span return
AddSpanRelease(t) ==
  /\ pc[t] = "add_release"
  /\ lock' = 0
  /\ pc' = [pc EXCEPT ![t] = IF caller[t] = "scope" THEN "scope_exit" ELSE "run"]
  /\ nested' = [nested EXCEPT ![t] = FALSE]
  /\ exc' = [exc EXCEPT ![t] = IF caller[t] = "scope" THEN @ ELSE NoExc]
  /\ cur' = [cur EXCEPT ![t] = IF caller[t] = "scope" THEN @ ELSE 0]
  /\ UNCHANGED <<clock, span, nextSpan, hist, max_batch_size, spans, exports,
                 regVars, calls, caller, stack>>

\* the host calls TracerProvider.flush, which calls self.processor.flush()
CallFlush(t) ==
  /\ pc[t] = "run"
  /\ calls.flush < MaxFlushes
  /\ calls' = [calls EXCEPT !.flush = @ + 1]
  /\ pc' = [pc EXCEPT ![t] = "flush_lock"]
  /\ UNCHANGED <<clock, span, nextSpan, hist, procVars, regVars, cur, exc, nested,
                 caller, stack>>

\* flush: with self.lock
FlushAcquire(t) ==
  /\ pc[t] = "flush_lock"
  /\ CanAcquire(t)
  /\ lock' = t
  /\ pc' = [pc EXCEPT ![t] = "flush_export"]
  /\ UNCHANGED <<clock, span, nextSpan, hist, max_batch_size, spans, exports,
                 regVars, calls, cur, exc, nested, caller, stack>>

\* flush without its "if self.spans" test
NonEmptyAlways(buf) == TRUE

\* flush: "if self.spans"
NonEmpty(buf) == buf # <<>>

\* what export() reads of a span of the batch it is handed
Exported(s) == [id |-> s, view |-> span[s]]

\* the export calls that have raised
Failures == {i \in 1..Len(exports) : ~exports[i].ok}

\* ConsoleSpanExporter.export(spans): the call, which returns (ok) or raises
export(batch, ok, t) ==
  Append(exports,
         [batch |-> [i \in 1..Len(batch) |-> Exported(batch[i])], ok |-> ok,
          nested |-> nested[t]])

\* a flush that empties the buffer whether or not export raised
AfterExportClears(ok) == "flush_clear"

\* flush: control after the export call: on to self.spans.clear() when it
\* returned, straight out of the "with" block when it raised
AfterExport(ok) == IF ok THEN "flush_clear" ELSE "flush_release"

\* flush: if self.spans: self.exporter.export(self.spans)
FlushExport(t) ==
  /\ pc[t] = "flush_export"
  /\ IF NonEmpty(spans)
       THEN \E ok \in (IF Cardinality(Failures) < MaxExportFailures
                         THEN BOOLEAN ELSE {TRUE}) :
              /\ exports' = export(spans, ok, t)
              /\ pc' = [pc EXCEPT ![t] = AfterExport(ok)]
              /\ exc' = [exc EXCEPT ![t] = IF ok THEN @ ELSE ExportError]
       ELSE /\ pc' = [pc EXCEPT ![t] = "flush_release"]
            /\ UNCHANGED <<exports, exc>>
  /\ UNCHANGED <<clock, span, nextSpan, hist, max_batch_size, spans, lock, regVars,
                 calls, cur, nested, caller, stack>>

\* a clear() that leaves the list as it is
clearNothing(buf) == buf

\* list.clear()
clear(buf) == <<>>

\* flush: self.spans.clear()
FlushClear(t) ==
  /\ pc[t] = "flush_clear"
  /\ spans' = clear(spans)
  /\ pc' = [pc EXCEPT ![t] = "flush_release"]
  /\ UNCHANGED <<clock, span, nextSpan, hist, max_batch_size, lock, exports,
                 regVars, calls, cur, exc, nested, caller, stack>>

\* flush: leaving "with self.lock"; flush returns, or raises what export raised
FlushRelease(t) ==
  /\ pc[t] = "flush_release"
  /\ lock' = 0
  /\ pc' = [pc EXCEPT ![t] = IF nested[t] THEN "add_release" ELSE "run"]
  /\ exc' = [exc EXCEPT ![t] = IF nested[t] THEN @ ELSE NoExc]
  /\ UNCHANGED <<clock, span, nextSpan, hist, max_batch_size, spans, exports,
                 regVars, calls, cur, nested, caller, stack>>

\* the spans thread t has started
Started(t) == {s \in SpanIds : hist[s].owner = t}

\* a producer thread calls processor.add_span(span) with a span of its own
CallAddSpan(t) ==
  /\ pc[t] = "run"
  /\ Cardinality(Started(t)) < AddsPerThread
  /\ nextSpan <= MaxSpans
  /\ span' = [span EXCEPT ![nextSpan] = NewSpan(None)]
  /\ hist' = [hist EXCEPT ![nextSpan].owner = t]
  /\ nextSpan' = nextSpan + 1
  /\ cur' = [cur EXCEPT ![t] = nextSpan]
  /\ caller' = [caller EXCEPT ![t] = "host"]
  /\ pc' = [pc EXCEPT ![t] = "add_lock"]
  /\ UNCHANGED <<clock, procVars, regVars, calls, exc, nested, stack>>

\* every producer thread has made its add_span calls and they have returned
ProducersDone ==
  \A t \in Threads : pc[t] = "run" /\ Cardinality(Started(t)) = AddsPerThread

\* the one final flush(), after all producer threads are done
FinalFlush(t) ==
  /\ ProducersDone
  /\ calls.flush = 0
  /\ CallFlush(t)

\* -------------------------------------------------------- TracerProvider
\* the host calls get_tracer(name)
GetTracerCall(t) ==
  /\ pc[t] = "run"
  /\ calls.get_tracer < MaxGetCalls
  /\ calls' = [calls EXCEPT !.get_tracer = @ + 1]
  /\ \E n \in Names : gname' = [gname EXCEPT ![t] = n]
  /\ pc' = [pc EXCEPT ![t] = "gt_check"]
  /\ UNCHANGED <<clock, span, nextSpan, hist, procVars, tracers, built, returned,
                 processor, tracer, cur, exc, nested, caller, stack>>

\* get_tracer: if name not in self.tracers
GetTracerCheck(t) ==
  /\ pc[t] = "gt_check"
  /\ pc' = [pc EXCEPT ![t] =
              IF tracers[gname[t]] = 0 THEN "gt_insert" ELSE "gt_return"]
  /\ UNCHANGED <<clock, span, nextSpan, hist, procVars, regVars, calls, cur, exc,
                 nested, caller, stack>>

\* TracerProvider.processor: the one BatchSpanProcessor __init__ builds, whose
\* buffer, lock and exporter the model's spans, lock and exports are
ProviderProcessor == 1

\* a Tracer built with a BatchSpanProcessor of its own
OwnProcessor == ProviderProcessor + 1

\* get_tracer: the processor argument of Tracer(name, self.processor)
TracerProcessor == ProviderProcessor

\* the Tracer objects constructed so far
AllBuilt == UNION {built[n] : n \in Names}

\* get_tracer: self.tracers[name] = Tracer(name, self.processor)
GetTracerInsert(t) ==
  /\ pc[t] = "gt_insert"
  /\ built' = [built EXCEPT ![gname[t]] = @ \cup {Cardinality(AllBuilt) + 1}]
  /\ tracers' = [tracers EXCEPT ![gname[t]] = Cardinality(AllBuilt) + 1]
  /\ processor' = [processor EXCEPT ![Cardinality(AllBuilt) + 1] = TracerProcessor]
  /\ pc' = [pc EXCEPT ![t] = "gt_return"]
  /\ UNCHANGED <<clock, span, nextSpan, hist, procVars, returned, gname, tracer,
                 calls, cur, exc, nested, caller, stack>>

\* get_tracer: return self.tracers[name]
GetTracerReturn(t) ==
  /\ pc[t] = "gt_return"
  /\ returned' = [returned EXCEPT ![gname[t]] = @ \cup {tracers[gname[t]]}]
  /\ tracer' = [tracer EXCEPT ![t] = tracers[gname[t]]]
  /\ gname' = [gname EXCEPT ![t] = ""]
  /\ pc' = [pc EXCEPT ![t] = "run"]
  /\ UNCHANGED <<clock, span, nextSpan, hist, procVars, tracers, built,
                 processor, calls, cur, exc, nested, caller, stack>>

\* the host calls start_span on the Tracer get_tracer gave it
TracerStartSpan(t) ==
  /\ pc[t] = "run"
  /\ tracer[t] # 0
  /\ nextSpan <= MaxScopes
  /\ span' = [span EXCEPT ![nextSpan] = start_span(None)]
  /\ hist' = [hist EXCEPT ![nextSpan].owner = t, ![nextSpan].tracer = tracer[t]]
  /\ nextSpan' = nextSpan + 1
  /\ UNCHANGED <<clock, procVars, regVars, calls, pc, cur, exc, nested, caller,
                 stack>>

\* -------------------------------------------------------- specifications
\* the steps inside end_span, add_span and flush
Internal(t) ==
  \/ EndSpanEnd(t)
  \/ AddSpanAcquire(t)
  \/ AddSpanAppend(t)
  \/ AddSpanRelease(t)
  \/ FlushAcquire(t)
  \/ FlushExport(t)
  \/ FlushClear(t)
  \/ FlushRelease(t)

\* threads using the scoped helper and flush
Next ==
  \E t \in Threads :
    \/ ScopeEnter(t)
    \/ WorkReturn(t)
    \/ WorkRaise(t)
    \/ ScopeExit(t)
    \/ CallFlush(t)
    \/ Internal(t)

Spec == Init /\ [][Next]_vars

\* a thread inside a call keeps being scheduled
FairSpec ==
  Spec /\ \A t \in Threads : WF_vars(ScopeExit(t)) /\ WF_vars(Internal(t))

\* threads using start_span / end_span themselves, time passing
HostNext ==
  \/ Tick
  \/ \E t \in Threads :
       \/ StartSpan(t)
       \/ EndSpanCall(t)
       \/ CallFlush(t)
       \/ Internal(t)

HostSpec == Init /\ [][HostNext]_vars

\* N producer threads, M add_span calls each, one final flush
ProducerNext ==
  \E t \in Threads :
    \/ CallAddSpan(t)
    \/ FinalFlush(t)
    \/ AddSpanAcquire(t)
    \/ AddSpanAppend(t)
    \/ AddSpanRelease(t)
    \/ FlushAcquire(t)
    \/ FlushExport(t)
    \/ FlushClear(t)
    \/ FlushRelease(t)

ProducerSpec == InitWith(1..(MaxSpans + 1)) /\ [][ProducerNext]_vars

\* the calls the hosts have made on spans, the tracer and the provider
HostCalls ==
  SpanOps + calls.flush
  + Cardinality({c \in SpanIds \X (1..MaxEndCalls) : c[2] <= hist[c[1]].ends})

\* a host with calls left calls tracer.end_span / flush_traces
HostEndSpan(t) == HostCalls < MaxHostCalls /\ EndSpanCall(t)
HostFlush(t) == HostCalls < MaxHostCalls /\ CallFlush(t)

\* one host thread works on its spans through their whole interface
SpanOwners == {1}

SpanNext ==
  \E t \in SpanOwners :
    \/ \E p \in Parents : StartSpanFrom(t, p)
    \/ SetAttribute(t)
    \/ AddEvent(t)
    \/ RecordException(t)
    \/ SetStatus(t)
    \/ HostEndSpan(t)
    \/ HostFlush(t)
    \/ Internal(t)

SpanSpec == Init /\ [][SpanNext]_vars

\* hosts on several threads get their tracers from the provider and start
\* and end spans through them
ProviderNext ==
  \E t \in Threads :
    \/ GetTracerCall(t)
    \/ GetTracerCheck(t)
    \/ GetTracerInsert(t)
    \/ GetTracerReturn(t)
    \/ TracerStartSpan(t)
    \/ HostEndSpan(t)
    \/ HostFlush(t)
    \/ Internal(t)

ProviderSpec == Init /\ [][ProviderNext]_vars

\* threads calling get_tracer
RegistryNext ==
  \E t \in Threads :
    \/ GetTracerCall(t)
    \/ GetTracerCheck(t)
    \/ GetTracerInsert(t)
    \/ GetTracerReturn(t)

RegistrySpec == Init /\ [][RegistryNext]_vars

\* ================================================================ claims
\* the span identities of a batch handed to export, in order
Ids(batch) == [i \in 1..Len(batch) |-> batch[i].id]

\* thread t waits for the lock it holds itself: nobody else can release it
SelfBlocked(t) == pc[t] \in {"add_lock", "flush_lock"} /\ lock = t

\* how many times span s was handed to export
TimesExported(s) ==
  Cardinality({<<i, j>> \in (1..Len(exports)) \X (1..MaxSpans) :
                 j <= Len(exports[i].batch) /\ exports[i].batch[j].id = s})

\* C1: whenever an add_span call brings the buffer to max_batch_size, export is
\* invoked (once, with exactly the buffered spans) and the buffer emptied: the
\* thread that appended is exporting, clearing, or able to enter flush; and a
\* batch exported from add_span holds exactly max_batch_size spans.
C1_ThresholdExports ==
  /\ AtThreshold(spans) =>
       \E t \in Threads :
         /\ lock = t
         /\ \/ pc[t] \in {"flush_export", "flush_clear"}
            \/ pc[t] = "flush_lock" /\ ENABLED FlushAcquire(t)
  /\ \A i \in 1..Len(exports) :
       exports[i].nested => Len(exports[i].batch) = max_batch_size

\* the producer scenario is over: all add_span calls and the final flush returned
Completed ==
  ProducersDone /\ calls.flush = 1 /\ \A t \in Threads : pc[t] = "run"

\* C2: N threads calling add_span M times each, then one final flush: the run
\* gets to its end, and then every one of the N*M spans has been handed to
\* export exactly once.
C2_AllExportedOnce ==
  /\ ~Completed => ENABLED ProducerNext
  /\ (Completed /\ Failures = {}) =>
       /\ nextSpan = MaxSpans + 1
       /\ \A s \in SpanIds : TimesExported(s) = 1

\* C3: add_span never tries to take the lock while it already holds it (so it
\* returns and leaves the lock released).
C3_NoSelfAcquire == \A t \in Threads : ~SelfBlocked(t)

\* C4: the exporter is never invoked with an empty batch.
C4_NoEmptyExport == \A i \in 1..Len(exports) : Len(exports[i].batch) > 0

\* a flush found the buffer empty and went on without exporting
C4_Witness ==
  \E t \in Threads :
    pc[t] = "flush_release" /\ ~nested[t] /\ spans = <<>> /\ exports = <<>>

\* thread t executes the "if self.spans: export" statement of flush
ExportStep(t) == pc[t] = "flush_export" /\ pc'[t] # "flush_export"

\* thread t's direct call of flush returns (or raises) to the host
FlushReturns(t) == pc[t] = "flush_release" /\ ~nested[t] /\ pc'[t] = "run"

\* one flush: export is invoked once with the buffered spans in append order,
\* not at all on an empty buffer, and by nothing else
FlushExportsOnce ==
  /\ \A t \in Threads :
       /\ (ExportStep(t) /\ spans # <<>>) =>
            /\ Len(exports') = Len(exports) + 1
            /\ SubSeq(exports', 1, Len(exports)) = exports
            /\ Ids(exports'[Len(exports')].batch) = spans
       /\ (ExportStep(t) /\ spans = <<>>) => exports' = exports
  /\ exports' # exports => \E t \in Threads : ExportStep(t)

\* C5 as stated: a flush of k buffered spans invokes export exactly once with
\* those spans in append order and leaves the buffer cleared, and a flush with
\* nothing buffered does not invoke export.
C5_FlushOnceAndClears ==
  [][ /\ FlushExportsOnce
      /\ \A t \in Threads : FlushReturns(t) => spans' = <<>> ]_vars

\* C5, amended: the same, the buffer being cleared when the export call
\* returned normally.
C5_FlushOnceAndClearsIfExported ==
  [][ /\ FlushExportsOnce
      /\ \A t \in Threads : (FlushReturns(t) /\ exc[t] = NoExc) => spans' = <<>> ]_vars

\* a second flush holds the lock, after a first one exported k < max_batch_size
\* spans, no span having been added since
C5_Witness ==
  \E t \in Threads :
    /\ pc[t] = "flush_export" /\ ~nested[t] /\ spans = <<>>
    /\ calls.flush = 2 /\ Len(exports) = 1 /\ exports[1].ok
    /\ Len(exports[1].batch) \in 1..(max_batch_size - 1)
    /\ \A s \in SpanIds : hist[s].appended = TimesExported(s)

\* the span record v shows a failure with message m
ShowsError(v, m) ==
  /\ v.status = "ERROR"
  /\ v.status_message = m
  /\ \E i \in 1..Len(v.events) :
       v.events[i].name = "exception" /\ v.events[i].attributes.message = m

\* C6: when the wrapped work raises with message m, the span in the buffer and
\* in an exported batch shows ERROR, m and the "exception" event, and the
\* failure is then observed by the caller of the scope.
C6_RecordedThenObserved ==
  /\ [](\A s \in SpanIds : hist[s].workExc # NoExc =>
          /\ (\E i \in 1..Len(spans) : spans[i] = s) =>
               ShowsError(span[s], hist[s].workExc)
          /\ \A i \in 1..Len(exports) : \A j \in 1..Len(exports[i].batch) :
               exports[i].batch[j].id = s =>
                 ShowsError(exports[i].batch[j].view, hist[s].workExc))
  /\ \A s \in SpanIds :
       (hist[s].workExc # NoExc) ~> (hist[s].outcome = hist[s].workExc)

\* C7: the failure e of the wrapped work is what leaves the scope: while the
\* scope is being left e stays the exception in flight and the thread is not
\* stuck for good, and what has left the scope is e.
C7_FailureForwarded ==
  /\ \A s \in SpanIds :
       (hist[s].scoped /\ hist[s].workExc # NoExc) =>
         hist[s].outcome \in {"open", hist[s].workExc}
  /\ \A t \in Threads :
       (pc[t] # "run" /\ caller[t] = "scope" /\ hist[cur[t]].workExc # NoExc) =>
         exc[t] = hist[cur[t]].workExc /\ ~SelfBlocked(t)

\* C8: end_span is called exactly once per scope, on both exit paths: a scope
\* that has been left has had one end_span call, which ended its span and
\* appended it once; an open scope has had at most one.
C8_EndedOncePerScope ==
  \A s \in SpanIds : hist[s].scoped =>
    /\ hist[s].ends <= 1 /\ hist[s].appended <= hist[s].ends
    /\ hist[s].outcome # "open" =>
         hist[s].ends = 1 /\ hist[s].appended = 1 /\ span[s].end_time # None

\* one scope was left by a failure and one by a normal return
C8_Witness ==
  /\ \E s \in SpanIds :
       /\ hist[s].scoped /\ hist[s].workExc # NoExc
       /\ hist[s].outcome = hist[s].workExc /\ hist[s].appended = 1
  /\ \E s \in SpanIds :
       hist[s].scoped /\ hist[s].outcome = "returned" /\ hist[s].appended = 1

\* C9: once end_time is set it never changes.
C9_EndTimeFixed ==
  [][\A s \in SpanIds :
       span[s].end_time # None => span'[s].end_time = span[s].end_time]_vars

\* C10: at most one Tracer is constructed per name, every caller gets that one,
\* and a registry entry never changes once inserted.
C10_OneTracerPerName ==
  []( \A n \in Names : Cardinality(built[n]) <= 1 /\ Cardinality(returned[n]) <= 1 )
  /\ [][\A n \in Names : tracers[n] # 0 => tracers'[n] = tracers[n]]_vars

\* how many times span s sits in the buffer
TimesBuffered(s) == Cardinality({i \in 1..Len(spans) : spans[i] = s})

\* C11: no span is handed on more than once, also when end_span is called twice
\* on it: a span occupies at most one buffer slot, is appended at most once,
\* and is in at most one exported batch or still buffered, never both.
C11_AtMostOnce ==
  \A s \in SpanIds :
    /\ TimesBuffered(s) <= 1
    /\ hist[s].appended <= 1
    /\ TimesBuffered(s) + Cardinality({i \in 1..Len(exports) :
                                         exports[i].ok /\ s \in {exports[i].batch[j].id : j \in 1..Len(exports[i].batch)}}) <= 1

\* sequence a is an initial part of sequence b
IsPrefix(a, b) == Len(a) <= Len(b) /\ \A i \in 1..Len(a) : a[i] = b[i]

\* C12: an export call that raises leaves the buffer as it was and raises out
\* of flush to the caller with the lock released; the spans of the failed batch
\* stay at the head of the buffer until the next export call, which is handed
\* them again.
C12_FailedBatchKept ==
  /\ [](\A i \in Failures :
          IF i = Len(exports)
            THEN IsPrefix(Ids(exports[i].batch), spans)
            ELSE IsPrefix(Ids(exports[i].batch), Ids(exports[i + 1].batch)))
  /\ [][\A t \in Threads :
          /\ (ExportStep(t) /\ Failures' # Failures)
               => /\ exc'[t] = ExportError
                  /\ spans' = spans
                  /\ lock' = t
          /\ (pc[t] = "flush_release" /\ exc[t] = ExportError /\ pc'[t] # pc[t])
               => /\ lock' = 0
                  /\ spans' = spans
                  /\ nested[t] => exc'[t] = ExportError
                  /\ ~nested[t] => pc'[t] = "run"]_vars

\* a flush raised what export raised, and a later flush exported the same spans
C12_Witness ==
  \E i \in Failures :
    /\ i < Len(exports)
    /\ exports[i + 1].ok
    /\ IsPrefix(Ids(exports[i].batch), Ids(exports[i + 1].batch))
    /\ lock = 0

\* the Span objects constructed so far
Created == {s \in SpanIds : span[s].created}

\* C13: start_span(name, p) builds a span whose context no other span has and
\* whose parent_context is p itself: started with A's context, its recorded
\* parent span id is A's span id; started with none, it has none. The call
\* leaves the new span unended, every other span, the buffer, the lock and the
\* export record as they were.
C13_StartSpanRecordsParent ==
  [][\A t \in SpanOwners, p \in Parents :
       StartSpanFrom(t, p) =>
         LET b == span'[nextSpan] IN
           /\ b.parent = p
           /\ \A a \in Created :
                /\ b.context # span[a].context
                /\ p = span[a].context
                     => parent_span_id(b) = span_id(span[a].context)
           /\ p = None => parent_span_id(b) = None
           /\ b.end_time = None
           /\ hist'[nextSpan].ends = 0 /\ hist'[nextSpan].appended = 0
           /\ \A a \in SpanIds \ {nextSpan} : span'[a] = span[a]
           /\ spans' = spans /\ exports' = exports /\ lock' = lock]_vars

\* span b was started with span a's context while a was in the buffer or sent
C13_Witness ==
  \E a, b \in Created :
    /\ a # b
    /\ span[b].parent = span[a].context
    /\ parent_span_id(span[b]) = span_id(span[a].context)
    /\ span[b].start_time >= 0 /\ span[b].end_time = None
    /\ hist[a].appended = 1

\* C14: a span reaches the buffer or the exporter only through end_span: every
\* buffered or exported span has had end_span called on it and has its
\* end_time set, every span handed to export had it set at that moment, and a
\* span end_span was never called on is in no batch.
C14_OnlyEndedSpansLeave ==
  /\ \A i \in 1..Len(spans) :
       hist[spans[i]].ends >= 1 /\ span[spans[i]].end_time # None
  /\ \A i \in 1..Len(exports) : \A j \in 1..Len(exports[i].batch) :
       /\ hist[exports[i].batch[j].id].ends >= 1
       /\ span[exports[i].batch[j].id].end_time # None
       /\ exports[i].batch[j].view.end_time # None

\* one span was ended and exported while another, still open, was not
C14_Witness ==
  \E s, u \in SpanIds :
    /\ hist[s].ends = 1 /\ TimesExported(s) = 1 /\ span[s].end_time # None
    /\ span[u].created /\ hist[u].ends = 0 /\ span[u].end_time = None
    /\ TimesExported(u) = 0 /\ TimesBuffered(u) = 0

\* the attribute value types the contract allows: string, number, boolean,
\* sequence of primitives
AllowedTypes == {"str", "int", "float", "bool", "list"}

\* C15: whatever set_attribute calls were made, every value stored in a span's
\* attributes is of an allowed type.
C15_AttributesAllowed ==
  \A s \in SpanIds : \A k \in DOMAIN span[s].attributes :
    span[s].attributes[k].type \in AllowedTypes

\* thread t is inside "with self.lock" of add_span or of flush
InCritical(t) ==
  \/ pc[t] \in {"add_append", "add_release", "flush_export", "flush_clear",
                "flush_release"}
  \/ pc[t] = "flush_lock" /\ nested[t]

\* C16: add_span and flush are one critical section: a thread inside holds the
\* lock, so at most one is inside; the buffer changes and export is invoked
\* only in a step of the thread holding the lock; and at most one thread is
\* past a threshold-crossing append on its way to export.
C16_OneCriticalSection ==
  /\ [](\A t \in Threads : InCritical(t) => lock = t)
  /\ [](Cardinality({t \in Threads : InCritical(t)}) <= 1)
  /\ [](Cardinality({t \in Threads : nested[t]}) <= 1)
  /\ [][/\ spans' # spans
             => \E t \in Threads :
                  lock = t /\ pc[t] \in {"add_append", "flush_clear"} /\ pc'[t] # pc[t]
        /\ exports' # exports
             => \E t \in Threads : lock = t /\ ExportStep(t)]_vars

\* one thread is exporting under the lock while the other waits to enter
C16_Witness ==
  \E t, u \in Threads :
    /\ t # u
    /\ pc[t] = "flush_export" /\ lock = t /\ spans # <<>>
    /\ pc[u] \in {"add_lock", "flush_lock"}

\* thread t's end_span call on span s has not appended s yet
Appending(t, s) == cur[t] = s /\ pc[t] \in {"end_span", "add_lock", "add_append"}

\* C17: every Tracer the provider builds holds the provider's processor, so
\* spans ended through any of them go to the one buffer: each is appended at
\* the end of it, after every span whose end_span call has returned, the
\* threshold test counts all buffered spans whichever tracer ended them, and a
\* flush hands the whole buffer to export as one batch in buffer order.
C17_OneSharedProcessor ==
  /\ [](\A i \in AllBuilt : processor[i] = ProviderProcessor)
  /\ [](\A s \in SpanIds :
          (\A t \in Threads : ~Appending(t, s)) => hist[s].appended = hist[s].ends)
  /\ [][/\ Len(spans') > Len(spans)
             => \E t \in Threads :
                  /\ spans' = Append(spans, cur[t])
                  /\ nested'[t] = (Len(spans') >= max_batch_size)
        /\ \A t \in Threads :
             (ExportStep(t) /\ exports' # exports)
               => Ids(exports'[Len(exports')].batch) = spans]_vars

\* one flush exported, as one batch, two spans ended through different tracers
C17_Witness ==
  \E i \in 1..Len(exports) :
    /\ exports[i].ok /\ ~exports[i].nested
    /\ Len(exports[i].batch) = 2
    /\ hist[exports[i].batch[1].id].tracer # 0
    /\ hist[exports[i].batch[2].id].tracer # 0
    /\ hist[exports[i].batch[1].id].tracer # hist[exports[i].batch[2].id].tracer
    /\ processor[hist[exports[i].batch[1].id].tracer]
         = processor[hist[exports[i].batch[2].id].tracer]

\* C18: record_exception(e) on a span stores e in its error field and appends
\* one event, named "exception" and carrying e's kind and message, after the
\* events it had; status, status_message, end_time, attributes and every other
\* span stay as they were. The status changes only in a set_status call.
C18_RecordExceptionFrame ==
  [][\A t \in SpanOwners :
       /\ RecordException(t) =>
            \E s \in Created, e \in Msgs :
              /\ span'[s].error = e
              /\ Len(span'[s].events) = Len(span[s].events) + 1
              /\ IsPrefix(span[s].events, span'[s].events)
              /\ span'[s].events[Len(span'[s].events)].name = "exception"
              /\ span'[s].events[Len(span'[s].events)].attributes
                   = [type |-> KindOf(e), message |-> e]
              /\ span'[s].status = span[s].status
              /\ span'[s].status_message = span[s].status_message
              /\ span'[s].end_time = span[s].end_time
              /\ span'[s].attributes = span[s].attributes
              /\ \A u \in SpanIds \ {s} : span'[u] = span[u]
       /\ (\E s \in SpanIds : span'[s].created /\ span[s].created
                               /\ span'[s].status # span[s].status)
            => SetStatus(t)]_vars

\* a span that had an event got an exception recorded after it and still has
\* its initial status
C18_Witness ==
  \E s \in Created :
    /\ Len(span[s].events) = 2
    /\ span[s].events[1].name = "error_occurred"
    /\ span[s].events[2].name = "exception"
    /\ span[s].error \in Msgs
    /\ span[s].status = "UNSET"

\* C19: events are append-only. In every step the events a span had are an
\* initial part, in the same order, of the events it has afterwards; an
\* add_event or record_exception call adds one event to one span, and no other
\* operation (set_attribute, set_status, end_span, add_span, flush, export)
\* changes any span's events.
C19_EventsAppendOnly ==
  [][/\ \A s \in SpanIds : IsPrefix(span[s].events, span'[s].events)
     /\ \A t \in SpanOwners :
          (AddEvent(t) \/ RecordException(t))
            => \E s \in Created :
                 /\ Len(span'[s].events) = Len(span[s].events) + 1
                 /\ \A u \in SpanIds \ {s} : span'[u].events = span[u].events
     /\ (\A t \in SpanOwners : ~AddEvent(t) /\ ~RecordException(t))
          => \A s \in SpanIds : span'[s].events = span[s].events]_vars

\* a span with an event was ended and exported, and has the events it had
\* when it was exported
C19_Witness ==
  \E i \in 1..Len(exports) : \E j \in 1..Len(exports[i].batch) :
    LET s == exports[i].batch[j].id IN
      /\ Len(span[s].events) >= 1
      /\ span[s].events = exports[i].batch[j].view.events
      /\ span[s].end_time # None

\* C20: once end() has been called on a span, duration() is end_time minus
\* start_time, whatever the clock shows and whatever value end_time has; until
\* then it is the clock minus start_time; it is never negative.
C20_DurationFixedAfterEnd ==
  \A s \in Created :
    /\ duration(span[s]) >= 0
    /\ span[s].end_time = None => duration(span[s]) = clock - span[s].start_time
    /\ span[s].end_time # None
         => duration(span[s]) = span[s].end_time - span[s].start_time

\* the identifiers read from span record sp
Identity(sp) ==
  [trace_id |-> trace_id(sp.context), span_id |-> span_id(sp.context),
   trace_flags |-> trace_flags(sp.context), context |-> sp.context,
   parent |-> sp.parent, parent_span_id |-> parent_span_id(sp)]

\* C21: a span's identity is fixed once start_span has returned: no step
\* changes the context or the parent_context of a constructed span, and the
\* identifiers of every exported span are those the span has now.
C21_IdentityFixed ==
  /\ [][\A s \in Created : Identity(span'[s]) = Identity(span[s])]_vars
  /\ [](\A i \in 1..Len(exports) : \A j \in 1..Len(exports[i].batch) :
          Identity(exports[i].batch[j].view)
            = Identity(span[exports[i].batch[j].id]))

\* a span started with a parent was modified, ended and exported, and has the
\* identifiers it was exported with
C21_Witness ==
  \E i \in 1..Len(exports) : \E j \in 1..Len(exports[i].batch) :
    LET s == exports[i].batch[j].id IN
      /\ span[s].parent # None
      /\ hist[s].ops >= 1
      /\ Identity(exports[i].batch[j].view) = Identity(span[s])
      /\ span[s].context = generate(s)

RECURSIVE Delivered(_)
\* the spans of the first n export calls that returned, in the order handed over
Delivered(n) ==
  IF n = 0 THEN <<>>
  ELSE IF exports[n].ok THEN Delivered(n - 1) \o Ids(exports[n].batch)
       ELSE Delivered(n - 1)

\* every span that has left its scope's end_span so far, in order: those
\* exported, then those still buffered
Handed == Delivered(Len(exports)) \o spans

\* C22: in one thread an inner scope's span is ended and appended before the
\* span of the scope around it. While a scope is open around another one its
\* span is unended, in no buffer slot and in no batch handed to export; and
\* wherever the outer span stands among the spans handed on, the inner span
\* stands before it.
C22_InnerBeforeOuter ==
  /\ \A t \in Threads : \A k \in 1..(Len(stack[t]) - 1) :
       LET u == stack[t][k] IN
         /\ hist[u].ends = 0 /\ span[u].end_time = None
         /\ \A i \in 1..Len(spans) : spans[i] # u
         /\ \A i \in 1..Len(exports) : \A j \in 1..Len(exports[i].batch) :
              exports[i].batch[j].id # u
  /\ LET h == Handed IN
       \A s \in SpanIds :
         hist[s].encl # 0 =>
           /\ hist[hist[s].encl].ends >= 1 => hist[s].appended >= 1
           /\ \A q \in 1..Len(h) :
                h[q] = hist[s].encl => \E p \in 1..(q - 1) : h[p] = s

\* a span opened inside another's scope was exported ahead of it, one of the
\* two scopes having been left by an exception
C22_Witness ==
  \E s \in SpanIds :
    /\ hist[s].encl # 0
    /\ \E p, q \in 1..Len(Delivered(Len(exports))) :
         /\ p < q
         /\ Delivered(Len(exports))[p] = s
         /\ Delivered(Len(exports))[q] = hist[s].encl
    /\ hist[s].workExc # NoExc \/ hist[hist[s].encl].workExc # NoExc

\* thread t is inside a call of add_span or flush
InProcessor(t) ==
  pc[t] \in {"add_lock", "add_append", "add_release", "flush_lock",
             "flush_export", "flush_clear", "flush_release"}

\* C23: while no export call has raised and max_batch_size is at least 1, the
\* buffer is shorter than max_batch_size whenever no thread is inside add_span
\* or flush, and it is empty when a flush is about to return.
C23_BufferBound ==
  (Failures = {} /\ max_batch_size >= 1) =>
    /\ (\A t \in Threads : ~InProcessor(t)) => Len(spans) < max_batch_size
    /\ \A t \in Threads :
         (pc[t] = "flush_release" /\ ~nested[t]) => spans = <<>>

\* with both threads outside the processor the buffer is one short of the
\* threshold, an earlier flush having exported and emptied it
C23_Witness ==
  /\ Failures = {} /\ max_batch_size >= 1
  /\ \A t \in Threads : ~InProcessor(t)
  /\ Len(spans) = max_batch_size - 1 /\ spans # <<>>
  /\ exports # <<>>

====
